---- MODULE Spec2Model ----
(***************************************************************************)
(* A model of meiduo_mall/apps/users/serializers.py.                       *)
(*                                                                         *)
(* Registration (CreateUserSerializer): a request worker runs the          *)
(* serializer's field validation, validate() and create() as a sequence of *)
(* steps, one per access to a store (the relational store of accounts, the *)
(* redis store "verify_codes").  Any store call may raise.                 *)
(*                                                                         *)
(* Email binding (EmailSerializer): a worker sets the email of the         *)
(* logged-in user, saves the row and queues the verification mail; the     *)
(* celery worker and the user opening a mailed link run beside it.         *)
(*                                                                         *)
(* Browsing history (AddUserBrowsingHistorySerializer): a worker checks    *)
(* the SKU, queues LREM/LPUSH/LTRIM on a redis pipeline and executes it.   *)
(*                                                                         *)
(* Python str values that the code inspects character by character are     *)
(* sequences of one-character strings; redis values are byte sequences.    *)
(* An optional value (None or a value) is a set with at most one element.  *)
(***************************************************************************)
EXTENDS Integers, Sequences, FiniteSets, TLC

VARIABLES
    accounts,   \* rows of the users table
    nextId,     \* the table's auto-increment primary key
    vcodes,     \* redis "verify_codes": mobile -> optional bytes (key sms_<mobile>)
    pc,         \* each registration worker's position
    data,       \* each worker's request data (the serializer's initial data)
    errs,       \* field errors collected so far by to_internal_value
    real,       \* real_sms_code, as read by validate()
    user,       \* the instance returned by super().create()
    token,      \* user.token
    result,     \* what the call reported
    trace,      \* the checks the call has performed, in order
    pre,        \* the users table as it was when the call began
    calls,      \* register calls begun so far
    serial,     \* TRUE: calls run one after another; FALSE: they interleave
    prev,       \* the last call answered (kept when calls run one after another)
    history,    \* redis "history": user id -> list of bytes (key history_<id>)
    hpc,        \* each browsing-history worker's position
    hreq,       \* each worker's request: the logged-in user and the sku_id sent
    hres,       \* what the call reported
    viewLog,    \* per user, the sku ids of the completed calls, oldest first
    since,      \* per worker, the pipelines executed since its call began
    views,      \* browsing-history calls begun so far
    goods,      \* the ids of the rows of the goods table (SKU.objects)
    viewCap,    \* how many browsing-history calls the run may begin
    fresh,      \* TRUE: every request carries the user's next unseen sku id
    profile,    \* the email columns of the logged-in user's row
    epc,        \* each email worker's position
    ereq,       \* each worker's request data: the optional field email
    einst,      \* the instance the view loaded for the request
    eres,       \* what the call reported
    mailq,      \* the celery queue of send_confirm_email tasks
    links,      \* the verification links mailed so far
    binds       \* email requests begun so far

regVars == <<accounts, nextId, vcodes, pc, data, errs, real, user, token,
             result, trace, pre, calls, serial, prev>>
mailVars == <<profile, epc, ereq, einst, eres, mailq, links, binds>>
histVars == <<history, hpc, hreq, hres, viewLog, since, views, goods,
              viewCap, fresh>>
vars == <<accounts, nextId, vcodes, pc, data, errs, real, user, token,
          result, trace, pre, calls, serial, prev,
          history, hpc, hreq, hres, viewLog, since, views, goods,
          viewCap, fresh,
          profile, epc, ereq, einst, eres, mailq, links, binds>>

----------------------------------------------------------------------------
(* Bounds and input sets *)

MaxCalls == 2
MaxViews == 2
MaxSku == 6

\* constants.USER_BROWSING_HISTORY_COUNTS_LIMIT
K == 5

Procs == {"w1", "w2"}

M1 == <<"1", "3", "8", "0", "0", "0", "0", "0", "0", "0", "1">>
MBad == <<"1", "2", "3", "4", "5", "6", "7", "8", "9", "0", "1">>
Mobiles == {M1, MBad}

Usernames == {"alice", "bobby"}
Passwords == {"secret123", "secret124"}
SmsCodes == {"12", "21"}
Allows == {"true", "on"}

\* the bytes redis holds for a code the issuer stored
CodeBytes == {<<49, 50>>, <<50, 49>>}

Inputs ==
    [username : Usernames, password : {"secret123"}, password2 : Passwords,
     sms_code : SmsCodes, mobile : Mobiles, allow : Allows]

NoData ==
    [username |-> "", password |-> "", password2 |-> "", sms_code |-> "",
     mobile |-> <<>>, allow |-> ""]
NoUser == [id |-> 0, username |-> "", mobile |-> <<>>, password |-> ""]
NoToken == [user_id |-> 0, username |-> ""]
Pending == [status |-> "pending", errors |-> {}]
NoPrev == [data |-> NoData, result |-> Pending, pre |-> {}]

\* the email columns of a user that has set no email
NoProfile == [email |-> "", email_active |-> FALSE]
\* the addresses a request may carry
Emails == {"a@x.cn", "b@x.cn"}

UserIds == {1, 2}
\* SKU.objects: the ids in the goods table
Catalog == 1..MaxSku
\* the sku_id values a request may carry: 0 fails min_value, MaxSku + 1 is
\* no row of the goods table
SkuInputs == 0..(MaxSku + 1)
NoReq == [user_id |-> 0, sku_id |-> 0]

----------------------------------------------------------------------------
(* Pure helpers *)

Digits == {"0", "1", "2", "3", "4", "5", "6", "7", "8", "9"}

\* re.match(r'^1[3-9]\d{9}$', value): '$' also matches before a final newline
MatchMobile(value) ==
    /\ Len(value) \in {11, 12}
    /\ Len(value) = 12 => value[12] = "\n"
    /\ value[1] = "1"
    /\ value[2] \in {"3", "4", "5", "6", "7", "8", "9"}
    /\ \A i \in 3..11 : value[i] \in Digits

Chr(b) ==
    CASE b = 48 -> "0" [] b = 49 -> "1" [] b = 50 -> "2" [] b = 51 -> "3"
      [] b = 52 -> "4" [] b = 53 -> "5" [] b = 54 -> "6" [] b = 55 -> "7"
      [] b = 56 -> "8" [] b = 57 -> "9" [] OTHER -> "?"

\* the characters of an ASCII byte string
RECURSIVE Chars(_)
Chars(bs) == IF bs = <<>> THEN "" ELSE Chr(Head(bs)) \o Chars(Tail(bs))

\* mutant of Decode: str(real_sms_code) in place of real_sms_code.decode()
DecodeAsRepr(bs) == "b'" \o Chars(bs) \o "'"

\* real_sms_code.decode()
Decode(bs) == Chars(bs)

\* user.set_password(raw): django's make_password
MakePassword(raw) == "pbkdf2_sha256$" \o raw

\* jwt_encode_handler(jwt_payload_handler(user))
JwtToken(u) == [user_id |-> u.id, username |-> u.username]

\* mutant of MobileTaken: the mobile column is not unique
MobileNeverTaken(rows, m) == FALSE

\* the unique constraints of the users table
UsernameTaken(rows, u) == \E a \in rows : a.username = u
MobileTaken(rows, m) == \E a \in rows : a.mobile = m

\* the UniqueValidator a ModelSerializer gives a unique model field
UsernameUniqueErrors(rows, v) ==
    IF UsernameTaken(rows, v) THEN {<<"username", "unique">>} ELSE {}

\* mutant of MobileUniqueErrors: the mobile field has no unique validator
MobileNotValidatedUnique(rows, v) == {}

MobileUniqueErrors(rows, v) ==
    IF MobileTaken(rows, v) THEN {<<"mobile", "unique">>} ELSE {}

\* Meta.extra_kwargs['username']; a field runs all of its validators
UsernameErrors(rows, v) ==
    (IF Len(v) < 5 THEN {<<"username", "min_length">>} ELSE {})
    \cup (IF Len(v) > 20 THEN {<<"username", "max_length">>} ELSE {})
    \cup UsernameUniqueErrors(rows, v)

PasswordErrors(v) ==
    (IF Len(v) < 8 THEN {<<"password", "min_length">>} ELSE {})
    \cup (IF Len(v) > 20 THEN {<<"password", "max_length">>} ELSE {})

\* validate_mobile
ValidateMobile(v) == IF ~MatchMobile(v) THEN {<<"mobile", "format">>} ELSE {}

\* the mobile field: its validators, then (if they pass) validate_mobile
MobileErrors(rows, v) ==
    IF MobileUniqueErrors(rows, v) # {} THEN MobileUniqueErrors(rows, v)
    ELSE ValidateMobile(v)

\* mutant of AllowErrors: the comparison is made with 'True'
AllowErrorsCapital(v) == IF v # "True" THEN {<<"allow", "not_agreed">>} ELSE {}

\* validate_allow
AllowErrors(v) == IF v # "true" THEN {<<"allow", "not_agreed">>} ELSE {}

Invalid(es) == [status |-> "invalid", errors |-> es]
StoreError == [status |-> "error", errors |-> {<<"store", "unavailable">>}]
IntegrityError == [status |-> "error", errors |-> {<<"store", "integrity">>}]
Ok == [status |-> "ok", errors |-> {}]

----------------------------------------------------------------------------
(* Initial state *)

\* no email request yet, the user has no email
MailIdle ==
    /\ profile = NoProfile
    /\ epc = [p \in Procs |-> "idle"]
    /\ ereq = [p \in Procs |-> {}]
    /\ einst = [p \in Procs |-> NoProfile]
    /\ eres = [p \in Procs |-> Pending]
    /\ mailq = <<>>
    /\ links = {}
    /\ binds = 0

\* no browsing-history request yet, every list empty
HistEmpty ==
    /\ history = [u \in UserIds |-> <<>>]
    /\ hpc = [p \in Procs |-> "idle"]
    /\ hreq = [p \in Procs |-> NoReq]
    /\ hres = [p \in Procs |-> Pending]
    /\ viewLog = [u \in UserIds |-> <<>>]
    /\ since = [p \in Procs |-> 0]
    /\ views = 0
    /\ goods = Catalog
    /\ viewCap = MaxViews
    /\ fresh = FALSE

Init ==
    /\ accounts = {}
    /\ nextId = 1
    /\ vcodes = [m \in Mobiles |-> {}]
    /\ pc = [p \in Procs |-> "idle"]
    /\ data = [p \in Procs |-> NoData]
    /\ errs = [p \in Procs |-> {}]
    /\ real = [p \in Procs |-> {}]
    /\ user = [p \in Procs |-> NoUser]
    /\ token = [p \in Procs |-> NoToken]
    /\ result = [p \in Procs |-> Pending]
    /\ trace = [p \in Procs |-> <<>>]
    /\ pre = [p \in Procs |-> {}]
    /\ calls = 0
    /\ serial = FALSE
    /\ prev = NoPrev
    /\ MailIdle
    /\ HistEmpty

InitSeq ==
    /\ accounts = {}
    /\ nextId = 1
    /\ vcodes = [m \in Mobiles |-> {}]
    /\ pc = [p \in Procs |-> "idle"]
    /\ data = [p \in Procs |-> NoData]
    /\ errs = [p \in Procs |-> {}]
    /\ real = [p \in Procs |-> {}]
    /\ user = [p \in Procs |-> NoUser]
    /\ token = [p \in Procs |-> NoToken]
    /\ result = [p \in Procs |-> Pending]
    /\ trace = [p \in Procs |-> <<>>]
    /\ pre = [p \in Procs |-> {}]
    /\ calls = 0
    /\ serial = TRUE
    /\ prev = NoPrev
    /\ MailIdle
    /\ HistEmpty

----------------------------------------------------------------------------
(* The verification-code issuer (outside this file): SET with expiry *)

IssueCode(m, c) ==
    /\ MatchMobile(m)
    /\ vcodes[m] # {c}
    /\ vcodes' = [vcodes EXCEPT ![m] = {c}]
    /\ UNCHANGED <<accounts, nextId, pc, data, errs, real, user, token,
                   result, trace, pre, calls, serial, prev, histVars, mailVars>>

ExpireCode(m) ==
    /\ vcodes[m] # {}
    /\ vcodes' = [vcodes EXCEPT ![m] = {}]
    /\ UNCHANGED <<accounts, nextId, pc, data, errs, real, user, token,
                   result, trace, pre, calls, serial, prev, histVars, mailVars>>

----------------------------------------------------------------------------
(* CreateUserSerializer *)

Finish(p, r) ==
    /\ result' = [result EXCEPT ![p] = r]
    /\ pc' = [pc EXCEPT ![p] = "done"]

\* a request arrives: serializer = CreateUserSerializer(data=request.data);
\* is_valid() starts to_internal_value with the field username: its length
\* validators and the unique query
Begin(p, d) ==
    /\ pc[p] = "idle"
    /\ calls < MaxCalls
    /\ serial => \A q \in Procs : pc[q] = "idle"
    /\ calls' = calls + 1
    /\ data' = [data EXCEPT ![p] = d]
    /\ pre' = [pre EXCEPT ![p] = accounts]
    /\ trace' = [trace EXCEPT ![p] = <<"username">>]
    /\ \/ /\ errs' = [errs EXCEPT ![p] = UsernameErrors(accounts, d.username)]
          /\ pc' = [pc EXCEPT ![p] = "fields"]
          /\ UNCHANGED result
       \/ /\ Finish(p, StoreError)
          /\ UNCHANGED errs
    /\ UNCHANGED <<accounts, nextId, vcodes, real, user, token, serial, prev, histVars, mailVars>>

\* to_internal_value, fields password, mobile, allow in the order of
\* Meta.fields; every field's error is collected, then raised together
FieldsRest(p) ==
    /\ pc[p] = "fields"
    /\ trace' = [trace EXCEPT ![p] = @ \o <<"password", "mobile", "allow">>]
    /\ \/ LET es == errs[p] \cup PasswordErrors(data[p].password)
                      \cup MobileErrors(accounts, data[p].mobile)
                      \cup AllowErrors(data[p].allow)
          IN  /\ errs' = [errs EXCEPT ![p] = es]
              /\ IF es # {}
                 THEN Finish(p, Invalid(es))
                 ELSE /\ pc' = [pc EXCEPT ![p] = "validate"]
                      /\ UNCHANGED result
       \/ /\ Finish(p, StoreError)
          /\ UNCHANGED errs
    /\ UNCHANGED <<accounts, nextId, vcodes, data, real, user, token, pre,
                   calls, serial, prev, histVars, mailVars>>

\* mutant of AfterGet: the key is deleted as it is read
AfterGetDel(store, key) == [store EXCEPT ![key] = {}]

\* the store after redis_conn.get(key): GET leaves the key as it is
AfterGet(store, key) == store

\* validate(data)
Validate(p) ==
    /\ pc[p] = "validate"
    /\ IF data[p].password # data[p].password2
       THEN /\ Finish(p, Invalid({<<"non_field_errors", "password_mismatch">>}))
            /\ trace' = [trace EXCEPT ![p] = Append(@, "password2")]
            /\ UNCHANGED <<real, vcodes>>
       ELSE /\ trace' = [trace EXCEPT ![p] = @ \o <<"password2", "sms_code">>]
            /\ \/ LET real_sms_code == vcodes[data[p].mobile]
                  IN  /\ real' = [real EXCEPT ![p] = real_sms_code]
                      /\ vcodes' = AfterGet(vcodes, data[p].mobile)
                      /\ IF real_sms_code = {}
                         THEN Finish(p, Invalid({<<"non_field_errors", "sms_code_invalid">>}))
                         ELSE IF \E b \in real_sms_code : data[p].sms_code # Decode(b)
                         THEN Finish(p, Invalid({<<"non_field_errors", "sms_code_wrong">>}))
                         ELSE /\ pc' = [pc EXCEPT ![p] = "insert"]
                              /\ UNCHANGED result
               \/ /\ Finish(p, StoreError)
                  /\ UNCHANGED <<real, vcodes>>
    /\ UNCHANGED <<accounts, nextId, data, errs, user, token, pre,
                   calls, serial, prev, histVars, mailVars>>

\* the row super().create(validated_data) inserts: password2, sms_code and
\* allow deleted, the password as submitted
NewRow(id, d) ==
    [id |-> id, username |-> d.username, mobile |-> d.mobile,
     password |-> d.password]

\* create(validated_data), up to user = super().create(validated_data)
Insert(p) ==
    /\ pc[p] = "insert"
    /\ trace' = [trace EXCEPT ![p] = Append(@, "insert")]
    /\ \/ /\ ~UsernameTaken(accounts, data[p].username)
          /\ ~MobileTaken(accounts, data[p].mobile)
          /\ accounts' = accounts \cup {NewRow(nextId, data[p])}
          /\ nextId' = nextId + 1
          /\ user' = [user EXCEPT ![p] = NewRow(nextId, data[p])]
          /\ pc' = [pc EXCEPT ![p] = "save"]
          /\ UNCHANGED result
       \/ /\ UsernameTaken(accounts, data[p].username)
             \/ MobileTaken(accounts, data[p].mobile)
          /\ Finish(p, IntegrityError)
          /\ UNCHANGED <<accounts, nextId, user>>
       \/ /\ Finish(p, StoreError)
          /\ UNCHANGED <<accounts, nextId, user>>
    /\ UNCHANGED <<vcodes, data, errs, real, token, pre, calls, serial, prev, histVars, mailVars>>

\* user.set_password(...)
SetPassword(u, raw) == [u EXCEPT !.password = MakePassword(raw)]

\* mutant of SaveRow: save() inserts a second row
SaveRowInsert(rows, u) == rows \cup {[u EXCEPT !.id = u.id + 1]}

\* user.save(): UPDATE ... WHERE id = user.id
SaveRow(rows, u) == {a \in rows : a.id # u.id} \cup {u}

\* create(validated_data), from user.set_password to return user
Save(p) ==
    /\ pc[p] = "save"
    /\ trace' = [trace EXCEPT ![p] = Append(@, "save")]
    /\ \/ LET u == SetPassword(user[p], data[p].password)
          IN  /\ accounts' = SaveRow(accounts, u)
              /\ user' = [user EXCEPT ![p] = u]
              /\ token' = [token EXCEPT ![p] = JwtToken(u)]
              /\ Finish(p, Ok)
       \/ /\ Finish(p, StoreError)
          /\ UNCHANGED <<accounts, user, token>>
    /\ UNCHANGED <<nextId, vcodes, data, errs, real, pre, calls, serial, prev, histVars, mailVars>>

\* the response is sent; the worker is free for the next request
Return(p) ==
    /\ pc[p] = "done"
    /\ pc' = [pc EXCEPT ![p] = "idle"]
    /\ data' = [data EXCEPT ![p] = NoData]
    /\ errs' = [errs EXCEPT ![p] = {}]
    /\ real' = [real EXCEPT ![p] = {}]
    /\ user' = [user EXCEPT ![p] = NoUser]
    /\ token' = [token EXCEPT ![p] = NoToken]
    /\ result' = [result EXCEPT ![p] = Pending]
    /\ trace' = [trace EXCEPT ![p] = <<>>]
    /\ pre' = [pre EXCEPT ![p] = {}]
    /\ prev' = IF serial
               THEN [data |-> data[p], result |-> result[p], pre |-> pre[p]]
               ELSE prev
    /\ UNCHANGED <<accounts, nextId, vcodes, calls, serial, histVars, mailVars>>

----------------------------------------------------------------------------
(* redis lists *)

\* the bytes redis-py sends for an int value: str(value).encode()
Encode(n) ==
    IF n < 10 THEN <<48 + n>> ELSE <<48 + (n \div 10), 48 + (n % 10)>>

Reverse(list) == [i \in 1..Len(list) |-> list[Len(list) + 1 - i]]

\* the first n occurrences of value removed, head first
RECURSIVE RemoveFirst(_, _, _)
RemoveFirst(list, n, value) ==
    IF list = <<>> \/ n = 0 THEN list
    ELSE IF Head(list) = value THEN RemoveFirst(Tail(list), n - 1, value)
    ELSE <<Head(list)>> \o RemoveFirst(Tail(list), n, value)

\* LREM key count value
LRem(list, count, value) ==
    IF count = 0 THEN SelectSeq(list, LAMBDA x : x # value)
    ELSE IF count > 0 THEN RemoveFirst(list, count, value)
    ELSE Reverse(RemoveFirst(Reverse(list), 0 - count, value))

\* mutant of LPush: RPUSH
RPush(list, value) == list \o <<value>>

\* LPUSH key value
LPush(list, value) == <<value>> \o list

\* LTRIM key start stop
LTrim(list, start, stop) ==
    LET n == Len(list)
        s0 == IF start < 0 THEN (IF n + start < 0 THEN 0 ELSE n + start) ELSE start
        e0 == IF stop < 0 THEN n + stop ELSE (IF stop > n - 1 THEN n - 1 ELSE stop)
    IN  IF s0 > e0 THEN <<>> ELSE SubSeq(list, s0 + 1, e0 + 1)

\* one queued command applied to the store
Apply(db, cmd) ==
    CASE cmd.op = "LREM" ->
           [db EXCEPT ![cmd.key] = LRem(@, cmd.a, cmd.b)]
      [] cmd.op = "LPUSH" ->
           [db EXCEPT ![cmd.key] = LPush(@, cmd.b)]
      [] cmd.op = "LTRIM" ->
           [db EXCEPT ![cmd.key] = LTrim(@, cmd.a, cmd.b)]

\* mutant of Execute: the run stops after the second command (no transaction)
ExecuteTwo(db, cmds) == Apply(Apply(db, cmds[1]), cmds[2])

\* pl.execute(): the queued commands run as one MULTI/EXEC transaction
RECURSIVE Execute(_, _)
Execute(db, cmds) ==
    IF cmds = <<>> THEN db ELSE Execute(Apply(db, Head(cmds)), Tail(cmds))

----------------------------------------------------------------------------
(* AddUserBrowsingHistorySerializer *)

\* mutant of Pipeline: lrem(name, value, num), the argument order of the
\* legacy redis-py client
PipelineLegacyLrem(user_id, sku_id) ==
    << [op |-> "LREM", key |-> user_id, a |-> sku_id, b |-> Encode(0)],
       [op |-> "LPUSH", key |-> user_id, a |-> 0, b |-> Encode(sku_id)],
       [op |-> "LTRIM", key |-> user_id, a |-> 0, b |-> K - 1] >>

\* mutant of Pipeline: no lrem
PipelineNoDedup(user_id, sku_id) ==
    << [op |-> "LPUSH", key |-> user_id, a |-> 0, b |-> Encode(sku_id)],
       [op |-> "LTRIM", key |-> user_id, a |-> 0, b |-> K - 1] >>

\* mutant of Pipeline: ltrim(key, 0, LIMIT)
PipelineTrimOffByOne(user_id, sku_id) ==
    << [op |-> "LREM", key |-> user_id, a |-> 0, b |-> Encode(sku_id)],
       [op |-> "LPUSH", key |-> user_id, a |-> 0, b |-> Encode(sku_id)],
       [op |-> "LTRIM", key |-> user_id, a |-> 0, b |-> K] >>

\* mutant of Pipeline: the key is not formatted with the user id
PipelineSharedKey(user_id, sku_id) ==
    << [op |-> "LREM", key |-> 1, a |-> 0, b |-> Encode(sku_id)],
       [op |-> "LPUSH", key |-> 1, a |-> 0, b |-> Encode(sku_id)],
       [op |-> "LTRIM", key |-> 1, a |-> 0, b |-> K - 1] >>

\* the commands create() queues on the pipeline
Pipeline(user_id, sku_id) ==
    << [op |-> "LREM", key |-> user_id, a |-> 0, b |-> Encode(sku_id)],
       [op |-> "LPUSH", key |-> user_id, a |-> 0, b |-> Encode(sku_id)],
       [op |-> "LTRIM", key |-> user_id, a |-> 0, b |-> K - 1] >>

\* sku_id = serializers.IntegerField(min_value=1)
MinValueErrors(s) == IF s < 1 THEN {<<"sku_id", "min_value">>} ELSE {}

\* mutant of ValidateSkuId: SKU.DoesNotExist is swallowed
ValidateSkuIdPass(rows, s) == {}

\* validate_sku_id: SKU.objects.get(id=value)
ValidateSkuId(rows, s) ==
    IF s \in rows THEN {} ELSE {<<"sku_id", "not_found">>}

HFinish(p, r) ==
    /\ hres' = [hres EXCEPT ![p] = r]
    /\ hpc' = [hpc EXCEPT ![p] = "done"]

\* a request arrives; is_valid(): min_value=1, then validate_sku_id
HBegin(p, u, s) ==
    /\ hpc[p] = "idle"
    /\ views < viewCap
    /\ serial => \A q \in Procs : hpc[q] = "idle"
    /\ fresh => s = Len(viewLog[u]) + 1
    /\ views' = views + 1
    /\ hreq' = [hreq EXCEPT ![p] = [user_id |-> u, sku_id |-> s]]
    /\ IF MinValueErrors(s) # {}
       THEN HFinish(p, Invalid(MinValueErrors(s)))
       ELSE \/ IF ValidateSkuId(goods, s) = {}
               THEN /\ hpc' = [hpc EXCEPT ![p] = "create"]
                    /\ UNCHANGED hres
               ELSE HFinish(p, Invalid(ValidateSkuId(goods, s)))
            \/ HFinish(p, StoreError)
    /\ UNCHANGED <<history, viewLog, since, goods, viewCap, fresh, regVars, mailVars>>

\* create(validated_data)
HCreate(p) ==
    /\ hpc[p] = "create"
    /\ \/ /\ history' = Execute(history, Pipeline(hreq[p].user_id, hreq[p].sku_id))
          /\ viewLog' = [viewLog EXCEPT ![hreq[p].user_id] = Append(@, hreq[p].sku_id)]
          /\ since' = [q \in Procs |->
                         IF hpc[q] \in {"create", "done"} THEN since[q] + 1
                         ELSE since[q]]
          /\ HFinish(p, Ok)
       \/ /\ HFinish(p, StoreError)
          /\ UNCHANGED <<history, viewLog, since>>
    /\ UNCHANGED <<hreq, views, goods, viewCap, fresh, regVars, mailVars>>

HReturn(p) ==
    /\ hpc[p] = "done"
    /\ hpc' = [hpc EXCEPT ![p] = "idle"]
    /\ hreq' = [hreq EXCEPT ![p] = NoReq]
    /\ hres' = [hres EXCEPT ![p] = Pending]
    /\ since' = [since EXCEPT ![p] = 0]
    /\ UNCHANGED <<history, viewLog, views, goods, viewCap, fresh, regVars, mailVars>>

\* a list the calls above produce: n views of the skus 1..n, in that order;
\* the initial lists are empty, one short of the cap, or at the cap
Canon(n) == [i \in 1..n |-> Encode(n + 1 - i)]

InitHist ==
    /\ accounts = {}
    /\ nextId = 1
    /\ vcodes = [m \in Mobiles |-> {}]
    /\ pc = [p \in Procs |-> "idle"]
    /\ data = [p \in Procs |-> NoData]
    /\ errs = [p \in Procs |-> {}]
    /\ real = [p \in Procs |-> {}]
    /\ user = [p \in Procs |-> NoUser]
    /\ token = [p \in Procs |-> NoToken]
    /\ result = [p \in Procs |-> Pending]
    /\ trace = [p \in Procs |-> <<>>]
    /\ pre = [p \in Procs |-> {}]
    /\ calls = 0
    /\ serial = FALSE
    /\ prev = NoPrev
    /\ MailIdle
    /\ \E len \in [UserIds -> {0, K - 1, K}] :
          /\ history = [u \in UserIds |-> Canon(len[u])]
          /\ viewLog = [u \in UserIds |-> [i \in 1..len[u] |-> i]]
    /\ hpc = [p \in Procs |-> "idle"]
    /\ hreq = [p \in Procs |-> NoReq]
    /\ hres = [p \in Procs |-> Pending]
    /\ since = [p \in Procs |-> 0]
    /\ views = 0
    /\ goods = Catalog
    /\ viewCap = MaxViews
    /\ fresh = FALSE

NextHist ==
    \/ \E p \in Procs, u \in UserIds, s \in SkuInputs \cup goods : HBegin(p, u, s)
    \/ \E p \in Procs : HCreate(p)
    \/ \E p \in Procs : HReturn(p)

SpecHist == InitHist /\ [][NextHist]_vars

\* K + 5 skus in the goods table, empty lists, one request at a time, each
\* for the user's next unseen sku id
InitFill ==
    /\ accounts = {}
    /\ nextId = 1
    /\ vcodes = [m \in Mobiles |-> {}]
    /\ pc = [p \in Procs |-> "idle"]
    /\ data = [p \in Procs |-> NoData]
    /\ errs = [p \in Procs |-> {}]
    /\ real = [p \in Procs |-> {}]
    /\ user = [p \in Procs |-> NoUser]
    /\ token = [p \in Procs |-> NoToken]
    /\ result = [p \in Procs |-> Pending]
    /\ trace = [p \in Procs |-> <<>>]
    /\ pre = [p \in Procs |-> {}]
    /\ calls = 0
    /\ serial = TRUE
    /\ prev = NoPrev
    /\ MailIdle
    /\ history = [u \in UserIds |-> <<>>]
    /\ viewLog = [u \in UserIds |-> <<>>]
    /\ hpc = [p \in Procs |-> "idle"]
    /\ hreq = [p \in Procs |-> NoReq]
    /\ hres = [p \in Procs |-> Pending]
    /\ since = [p \in Procs |-> 0]
    /\ views = 0
    /\ goods = 1..(K + 5)
    /\ viewCap = K + 5 + MaxViews
    /\ fresh = TRUE

SpecFill == InitFill /\ [][NextHist]_vars

\* interleaved requests on lists that are all at the cap
InitFull == InitHist /\ \A u \in UserIds : Len(history[u]) = K

SpecFull == InitFull /\ [][NextHist]_vars

----------------------------------------------------------------------------
(* Email binding: EmailSerializer *)

MaxBinds == 3

Required(r) == IF r = {} THEN {<<"email", "required">>} ELSE {}

\* the broker refused the task message: send_confirm_email.delay raised
BrokerError == [status |-> "error", errors |-> {<<"mailer", "unavailable">>}]

\* instance.generate_verify_email_url(): a link that identifies the address
VerifyUrl(inst) == [email |-> inst.email]

\* instance.email = validated_data['email']
Assign(inst, e) == [inst EXCEPT !.email = e]

\* instance.save(): every column of the row is written from the instance
Persist(row, inst) == inst

\* the view hands the serializer the logged-in user and the request data;
\* a request without the field email is refused
EBegin(p, r) ==
    /\ epc[p] = "idle"
    /\ binds < MaxBinds
    /\ serial => \A q \in Procs : epc[q] = "idle"
    /\ binds' = binds + 1
    /\ ereq' = [ereq EXCEPT ![p] = r]
    /\ einst' = [einst EXCEPT ![p] = profile]
    /\ IF Required(r) # {}
         THEN /\ eres' = [eres EXCEPT ![p] = Invalid(Required(r))]
              /\ epc' = [epc EXCEPT ![p] = "done"]
         ELSE /\ eres' = eres
              /\ epc' = [epc EXCEPT ![p] = "update"]
    /\ UNCHANGED <<profile, mailq, links, regVars, histVars>>

\* update(), lines 122-123: set the field and save the row
EUpdate(p) ==
    /\ epc[p] = "update"
    /\ \/ \E e \in ereq[p] :
            /\ einst' = [einst EXCEPT ![p] = Assign(einst[p], e)]
            /\ profile' = Persist(profile, Assign(einst[p], e))
            /\ epc' = [epc EXCEPT ![p] = "send"]
            /\ eres' = eres
       \/ /\ eres' = [eres EXCEPT ![p] = StoreError]
          /\ epc' = [epc EXCEPT ![p] = "done"]
          /\ UNCHANGED <<einst, profile>>
    /\ UNCHANGED <<ereq, mailq, links, binds, regVars, histVars>>

\* update(), lines 126-130: build the link, queue the task, return
ESend(p) ==
    /\ epc[p] = "send"
    /\ \/ /\ mailq' = Append(mailq, [to |-> einst[p].email,
                                      url |-> VerifyUrl(einst[p])])
          /\ eres' = [eres EXCEPT ![p] = Ok]
       \/ /\ eres' = [eres EXCEPT ![p] = BrokerError]
          /\ mailq' = mailq
    /\ epc' = [epc EXCEPT ![p] = "done"]
    /\ UNCHANGED <<profile, ereq, einst, links, binds, regVars, histVars>>

EReturn(p) ==
    /\ epc[p] = "done"
    /\ epc' = [epc EXCEPT ![p] = "idle"]
    /\ ereq' = [ereq EXCEPT ![p] = {}]
    /\ einst' = [einst EXCEPT ![p] = NoProfile]
    /\ eres' = [eres EXCEPT ![p] = Pending]
    /\ UNCHANGED <<profile, mailq, links, binds, regVars, histVars>>

\* the celery worker runs the oldest queued send_confirm_email task: the
\* mail is delivered, or the send fails and the task is dropped
RunMailTask ==
    /\ mailq # <<>>
    /\ mailq' = Tail(mailq)
    /\ \/ links' = links \cup {Head(mailq).url}
       \/ links' = links
    /\ UNCHANGED <<profile, epc, ereq, einst, eres, binds, regVars, histVars>>

\* the user opens a mailed link: the address it names, if it is still the
\* account's address, becomes verified (between two requests when requests
\* run one after another)
VerifyEmail(l) ==
    /\ l \in links
    /\ serial => \A q \in Procs : epc[q] = "idle"
    /\ profile.email = l.email
    /\ ~profile.email_active
    /\ profile' = [profile EXCEPT !.email_active = TRUE]
    /\ UNCHANGED <<epc, ereq, einst, eres, mailq, links, binds, regVars,
                   histVars>>

NextMail ==
    \/ \E p \in Procs, r \in {{}} \cup {{e} : e \in Emails} : EBegin(p, r)
    \/ \E p \in Procs : EUpdate(p)
    \/ \E p \in Procs : ESend(p)
    \/ \E p \in Procs : EReturn(p)
    \/ RunMailTask
    \/ \E e \in Emails : VerifyEmail([email |-> e])

\* email requests one after another; the mail worker runs at any time
InitMail ==
    /\ accounts = {}
    /\ nextId = 1
    /\ vcodes = [m \in Mobiles |-> {}]
    /\ pc = [p \in Procs |-> "idle"]
    /\ data = [p \in Procs |-> NoData]
    /\ errs = [p \in Procs |-> {}]
    /\ real = [p \in Procs |-> {}]
    /\ user = [p \in Procs |-> NoUser]
    /\ token = [p \in Procs |-> NoToken]
    /\ result = [p \in Procs |-> Pending]
    /\ trace = [p \in Procs |-> <<>>]
    /\ pre = [p \in Procs |-> {}]
    /\ calls = 0
    /\ serial = TRUE
    /\ prev = NoPrev
    /\ MailIdle
    /\ HistEmpty

SpecMail == InitMail /\ [][NextMail]_vars

----------------------------------------------------------------------------

Next ==
    \/ \E m \in Mobiles, c \in CodeBytes : IssueCode(m, c)
    \/ \E m \in Mobiles : ExpireCode(m)
    \/ \E p \in Procs, d \in Inputs : Begin(p, d)
    \/ \E p \in Procs : FieldsRest(p)
    \/ \E p \in Procs : Validate(p)
    \/ \E p \in Procs : Insert(p)
    \/ \E p \in Procs : Save(p)
    \/ \E p \in Procs : Return(p)

Spec == Init /\ [][Next]_vars
SpecSeq == InitSeq /\ [][Next]_vars

----------------------------------------------------------------------------
(* Properties of registration *)

Elems(seq) == {seq[i] : i \in 1..Len(seq)}

Done(p) == pc[p] = "done"

\* the text of a stored code, written out independently of Decode
CodeText(b) == IF b = <<49, 50>> THEN "12" ELSE "21"

\* the inputs C1 calls valid
ValidInput(d) ==
    /\ d.allow = "true"
    /\ MatchMobile(d.mobile)
    /\ d.password = d.password2
    /\ Len(d.username) \in 5..20
    /\ Len(d.password) \in 8..20

Unused(rows, d) ==
    /\ \A a \in rows : a.username # d.username
    /\ \A a \in rows : a.mobile # d.mobile

\* the call read a live code equal to the one it presented
CodeMatched(p) == \E b \in real[p] : CodeText(b) = data[p].sms_code

WithMobile(m) == {a \in accounts : a.mobile = m}

PasswordMismatch == Invalid({<<"non_field_errors", "password_mismatch">>})
CodeMissing == Invalid({<<"non_field_errors", "sms_code_invalid">>})
CodeWrong == Invalid({<<"non_field_errors", "sms_code_wrong">>})

\* C1: a register call with valid inputs, unused username and mobile and the
\* live code for its mobile, none of whose store calls fails, reaches the code
\* check and succeeds; the table gains exactly one row, the one with this
\* username and mobile, and the token is built from that row's id and
\* username.  (Calls run one after another: SpecSeq.)
C1_ValidRegisterCreatesOne ==
    \A p \in Procs :
        (Done(p) /\ ValidInput(data[p]) /\ Unused(pre[p], data[p])
            /\ result[p] # StoreError)
        => /\ "sms_code" \in Elems(trace[p])
           /\ CodeMatched(p) =>
                /\ result[p] = Ok
                /\ pre[p] \subseteq accounts
                /\ \E a \in accounts :
                      /\ accounts \ pre[p] = {a}
                      /\ a.username = data[p].username
                      /\ a.mobile = data[p].mobile
                      /\ token[p] = [user_id |-> a.id, username |-> a.username]

C1_Witness ==
    \E p \in Procs :
        /\ Done(p) /\ result[p] = Ok /\ CodeMatched(p)
        /\ Cardinality(accounts) = 1

\* C2: the step in which a register call succeeds leaves no code stored for
\* its mobile (the matched code has been deleted).
C2_CodeConsumedOnSuccess ==
    [][\A p \in Procs :
          (pc[p] # "done" /\ pc'[p] = "done" /\ result'[p] = Ok)
          => vcodes'[data[p].mobile] = {}]_vars

\* C3: no two rows of the table share a mobile; of two register calls for the
\* same mobile, interleaved in any way, at most one succeeds, and when one
\* does exactly one row with that mobile exists.
C3_SameMobileAtMostOne ==
    /\ \A m \in Mobiles : Cardinality(WithMobile(m)) <= 1
    /\ \A p, q \in Procs :
          (p # q /\ Done(p) /\ Done(q) /\ data[p].mobile = data[q].mobile)
          => /\ ~(result[p] = Ok /\ result[q] = Ok)
             /\ (result[p] = Ok \/ result[q] = Ok)
                  => Cardinality(WithMobile(data[p].mobile)) = 1

\* two calls for one mobile that both got past validation, one of them refused
\* by the table
C3_Witness ==
    \E p, q \in Procs :
        /\ p # q /\ Done(p) /\ Done(q)
        /\ data[p].mobile = data[q].mobile
        /\ data[p].username # data[q].username
        /\ result[p] = Ok
        /\ result[q] = IntegrityError

\* C4: every row of the table holds a hashed password, never the plaintext
\* a caller submitted.
C4_PasswordOnlyHashed ==
    \A a \in accounts :
        /\ a.password \notin Passwords
        /\ \E raw \in Passwords : a.password = "pbkdf2_sha256$" \o raw

\* C5: a register call that ends in failure leaves the table as it was when
\* the call began.  (Calls run one after another: SpecSeq.)
C5_FailureCreatesNoRow ==
    \A p \in Procs :
        (Done(p) /\ result[p] # Ok) => accounts = pre[p]

\* C6 as claimed: the checks run in the order terms, mobile format, password
\* confirmation, code, and only the first violated one is reported.
C6_FirstViolationOnly ==
    \A p \in Procs :
        (Done(p) /\ result[p].status = "invalid")
        => IF data[p].allow # "true"
              THEN result[p].errors = {<<"allow", "not_agreed">>}
           ELSE IF ~MatchMobile(data[p].mobile)
              THEN result[p].errors = {<<"mobile", "format">>}
           ELSE IF data[p].password # data[p].password2
              THEN result[p] = PasswordMismatch
           ELSE TRUE

FieldNames == {"username", "password", "mobile", "allow"}
FieldErrorsOf(r) == {e \in r.errors : e[1] \in FieldNames}

\* C6 as amended: the field-level checks (terms and mobile format among
\* them) are all evaluated and every violated one is reported, together, with
\* no later check performed; the password confirmation is checked only when
\* no field-level check is violated, the code only when the passwords agree,
\* each reported alone; the insert is reached only when all of them pass.
C6_FieldsTogetherThenFailFast ==
    \A p \in Procs :
        (Done(p) /\ result[p] # StoreError)
        => /\ (data[p].allow # "true")
                <=> (<<"allow", "not_agreed">> \in result[p].errors)
           /\ (~MatchMobile(data[p].mobile))
                <=> (<<"mobile", "format">> \in result[p].errors)
           /\ FieldErrorsOf(result[p]) # {}
                => /\ result[p].errors = FieldErrorsOf(result[p])
                   /\ trace[p] = <<"username", "password", "mobile", "allow">>
           /\ (FieldErrorsOf(result[p]) = {}
                 /\ data[p].password # data[p].password2)
                => /\ result[p] = PasswordMismatch
                   /\ "sms_code" \notin Elems(trace[p])
           /\ result[p] = PasswordMismatch
                => data[p].password # data[p].password2
           /\ result[p] \in {CodeMissing, CodeWrong}
                => /\ data[p].password = data[p].password2
                   /\ "insert" \notin Elems(trace[p])
           /\ "insert" \in Elems(trace[p])
                => /\ data[p].allow = "true"
                   /\ MatchMobile(data[p].mobile)
                   /\ data[p].password = data[p].password2
                   /\ CodeMatched(p)

\* terms refused and a malformed mobile, both reported
C6_Witness ==
    \E p \in Procs :
        /\ Done(p)
        /\ result[p].errors = {<<"allow", "not_agreed">>, <<"mobile", "format">>}

\* C7: when a register call reaches the code check and the store answers, no
\* code stored for the mobile gives the kind "missing or expired" and a stored
\* code other than the one presented gives the kind "mismatch", and each kind
\* is reported in that situation only.
C7_MissingAndMismatchDistinct ==
    [][\A p \in Procs :
          (pc[p] = "validate" /\ pc'[p] # "validate"
             /\ data[p].password = data[p].password2
             /\ result'[p] # StoreError)
          => LET stored == vcodes[data[p].mobile]
                 differs == \E b \in stored : CodeText(b) # data[p].sms_code
             IN  /\ (stored = {}) <=> (result'[p] = CodeMissing)
                 /\ (stored # {} /\ differs) <=> (result'[p] = CodeWrong)
                 /\ (stored # {} /\ ~differs) <=> (pc'[p] = "insert")
                 /\ CodeMissing # CodeWrong]_vars

\* one call refused for a missing code, another for a wrong one
C7_Witness ==
    \E p, q \in Procs :
        /\ Done(p) /\ result[p] = CodeMissing
        /\ Done(q) /\ result[q] = CodeWrong

\* C8: a register call for a mobile that an earlier call registered fails
\* with the error "unique" on the field mobile, creates no row, and one row
\* with that mobile exists afterward.  (Calls run one after another: SpecSeq.)
C8_SecondRegisterConflict ==
    \A p \in Procs :
        (Done(p) /\ result[p] # StoreError
            /\ \E a \in pre[p] : a.mobile = data[p].mobile)
        => /\ result[p].status = "invalid"
           /\ <<"mobile", "unique">> \in result[p].errors
           /\ accounts = pre[p]
           /\ Cardinality(WithMobile(data[p].mobile)) = 1

\* the second call, otherwise valid, with another username
C8_Witness ==
    \E p \in Procs :
        /\ Done(p)
        /\ \E a \in pre[p] :
              a.mobile = data[p].mobile /\ a.username # data[p].username
        /\ data[p].allow = "true" /\ data[p].password = data[p].password2
        /\ result[p] = Invalid({<<"mobile", "unique">>})

----------------------------------------------------------------------------
(* Properties of the browsing history *)

NoDuplicates(list) ==
    \A i, j \in 1..Len(list) : list[i] = list[j] => i = j

\* the distinct elements of a log, the latest first
RECURSIVE LatestFirst(_)
LatestFirst(log) ==
    IF log = <<>> THEN <<>>
    ELSE LET last == log[Len(log)]
             rest == SubSeq(log, 1, Len(log) - 1)
         IN  <<last>> \o LatestFirst(SelectSeq(rest, LAMBDA x : x # last))

FirstK(list) == SubSeq(list, 1, IF Len(list) < K THEN Len(list) ELSE K)

\* the bytes of a sku id, written out for the ids of the model
SkuBytes(n) == IF n < 10 THEN <<48 + n>> ELSE <<49, 38 + n>>

\* C9: every user's list has no sku id twice, holds at most K entries and is
\* the distinct sku ids of the user's completed calls, latest first, cut to
\* the first K.
C9_ListIsRecentDistinctCapped ==
    \A u \in UserIds :
        /\ NoDuplicates(history[u])
        /\ Len(history[u]) <= K
        /\ LET want == FirstK(LatestFirst(viewLog[u]))
           IN  /\ Len(history[u]) = Len(want)
               /\ \A i \in 1..Len(want) : history[u][i] = SkuBytes(want[i])

\* a call that viewed again a sku of a full list, after one that dropped its
\* oldest entry
C9_Witness ==
    \E p \in Procs :
        /\ hpc[p] = "done" /\ hres[p] = Ok
        /\ Len(viewLog[hreq[p].user_id]) = K + 2
        /\ Cardinality(Elems(viewLog[hreq[p].user_id])) = K + 1

HDoneOk(p) == hpc[p] = "done" /\ hres[p] = Ok

\* two completed calls for one user whose executions each fell within the
\* other call, with no third execution meanwhile
Concurrent(p, q) ==
    /\ p # q /\ HDoneOk(p) /\ HDoneOk(q)
    /\ hreq[p].user_id = hreq[q].user_id
    /\ since[p] = 2 /\ since[q] = 2

\* C10: after two concurrent calls for one user with distinct sku ids, the
\* user's list holds at most K entries and contains both ids.
C10_ConcurrentBothPresent ==
    \A p, q \in Procs :
        (Concurrent(p, q) /\ hreq[p].sku_id # hreq[q].sku_id)
        => LET list == history[hreq[p].user_id]
           IN  /\ Len(list) <= K
               /\ SkuBytes(hreq[p].sku_id) \in Elems(list)
               /\ SkuBytes(hreq[q].sku_id) \in Elems(list)

\* both ids new to a list one short of the cap: the second push overflows it
C10_Witness ==
    \E p, q \in Procs :
        /\ Concurrent(p, q) /\ hreq[p].sku_id # hreq[q].sku_id
        /\ Len(viewLog[hreq[p].user_id]) = K + 1
        /\ Cardinality(Elems(viewLog[hreq[p].user_id])) = K + 1

\* the step in which worker p's pipeline has executed
Executed(p) == hpc[p] = "create" /\ hpc'[p] = "done" /\ hres'[p] = Ok

Without(list, b) == SelectSeq(list, LAMBDA x : x # b)

\* C11: a user's list only ever changes from one list to the result of all
\* three steps on it (some sku id removed, pushed at the head, the list cut to
\* K): no state shows a list between the steps, with a duplicate or with more
\* than K entries.
C11_StepsAreOneUnit ==
    [][\A u \in UserIds :
          history'[u] # history[u]
          => /\ NoDuplicates(history'[u])
             /\ Len(history'[u]) <= K
             /\ \E s \in goods :
                   history'[u] =
                       FirstK(<<SkuBytes(s)>> \o Without(history[u], SkuBytes(s)))]_vars

\* a call that pushed a new id on a full list, with nothing else executed
\* meanwhile
C11_Witness ==
    \E p \in Procs :
        /\ HDoneOk(p) /\ since[p] = 1
        /\ Len(viewLog[hreq[p].user_id]) = K + 1
        /\ Cardinality(Elems(viewLog[hreq[p].user_id])) = K + 1
        /\ Len(history[hreq[p].user_id]) = K

\* C12: a call for a sku id already in the user's list moves it to the head
\* and leaves the length and the order of the other entries as they were; a
\* call for the id at the head leaves the list as it was.
C12_RepeatMovesToHead ==
    [][\A p \in Procs :
          Executed(p)
          => LET b == SkuBytes(hreq[p].sku_id)
                 old == history[hreq[p].user_id]
                 new == history'[hreq[p].user_id]
             IN  b \in Elems(old)
                 => /\ new = <<b>> \o Without(old, b)
                    /\ Len(new) = Len(old)
                    /\ Cardinality({i \in 1..Len(new) : new[i] = b}) = 1
                    /\ old[1] = b => new = old]_vars

\* two calls in a row for one sku id, on a full list
C12_Witness ==
    \E p \in Procs :
        LET log == viewLog[hreq[p].user_id]
        IN  /\ HDoneOk(p)
            /\ Len(log) = K + 2
            /\ log[K + 1] = log[K + 2]
            /\ history[hreq[p].user_id][1] = SkuBytes(hreq[p].sku_id)

\* C13: K + 5 calls in sequence for one user, with pairwise distinct sku
\* ids, from an empty list: the list holds exactly K entries, the last K ids
\* latest first, and none of the 5 oldest.
C13_FillKeepsLastK ==
    \A u \in UserIds :
        LET log == viewLog[u]
        IN  (Len(log) = K + 5 /\ Cardinality(Elems(log)) = K + 5)
            => /\ Len(history[u]) = K
               /\ \A i \in 1..K : history[u][i] = SkuBytes(log[K + 5 + 1 - i])
               /\ \A j \in 1..5 : SkuBytes(log[j]) \notin Elems(history[u])

C13_Witness ==
    \E u \in UserIds :
        /\ Len(viewLog[u]) = K + 5
        /\ Cardinality(Elems(viewLog[u])) = K + 5
        /\ \A p \in Procs : hpc[p] = "idle"

\* the step in which worker p's request is validated
Checked(p) == hpc[p] = "idle" /\ hpc'[p] # "idle"

NotFound == Invalid({<<"sku_id", "not_found">>})

\* C14 as claimed: a call for a sku id that is no row of the goods table
\* fails with the kind "not found" (when the lookup itself does not raise)
\* and changes no list.
C14_UnknownIdNotFound ==
    [][\A p \in Procs :
          (Checked(p) /\ hreq'[p].sku_id \notin goods /\ hres'[p] # StoreError)
          => /\ hres'[p] = NotFound
             /\ history' = history]_vars

\* C14 as amended: a call for a sku id of at least 1 that is no row of the
\* goods table fails with the kind "not found"; one for an id below 1 is
\* refused by the field's min_value check; either way no list changes, and a
\* list only changes in the create step of a call whose id is in the table.
C14_UnknownIdRefused ==
    [][/\ \A p \in Procs :
            (Checked(p) /\ hreq'[p].sku_id \notin goods /\ hres'[p] # StoreError)
            => /\ hreq'[p].sku_id >= 1 => hres'[p] = NotFound
               /\ hreq'[p].sku_id < 1
                    => hres'[p] = Invalid({<<"sku_id", "min_value">>})
               /\ history' = history
       /\ history' # history
            => \E p \in Procs :
                  /\ hpc[p] = "create" /\ hpc'[p] = "done"
                  /\ hreq[p].sku_id \in goods]_vars

\* a call refused as not found, while a list is not empty
C14_Witness ==
    \E p \in Procs :
        /\ hpc[p] = "done" /\ hres[p] = NotFound
        /\ hreq[p].sku_id \notin goods
        /\ history[hreq[p].user_id] # <<>>

\* C19: a browsing-history call changes no list but the one of its user, and
\* neither the users table nor the verification codes.
C19_OnlyOwnList ==
    [][\A p \in Procs :
          (hpc'[p] # hpc[p] /\ hpc[p] \in {"idle", "create"})
          => LET u == hreq'[p].user_id
             IN  /\ \A v \in UserIds \ {u} : history'[v] = history[v]
                 /\ accounts' = accounts
                 /\ vcodes' = vcodes]_vars

\* a call of user 2 has executed while user 1 has a list
C19_Witness ==
    \E p \in Procs :
        /\ HDoneOk(p) /\ hreq[p].user_id = 2
        /\ history[1] # <<>>
        /\ history[2] # <<>>
        /\ history[1] # history[2]

----------------------------------------------------------------------------
(* Properties of registration: retries and the stored code *)

ConflictErrors ==
    {<<"username", "unique">>, <<"mobile", "unique">>, <<"store", "integrity">>}

\* worker p's call repeats the call answered just before it, which failed
\* with a store error and found its username and mobile unused
RetryOfFailed(p) ==
    /\ Done(p)
    /\ prev.result = StoreError
    /\ prev.data = data[p]
    /\ ValidInput(data[p])
    /\ Unused(prev.pre, data[p])

\* C17: the retry of a register call that failed with a store error, when
\* its own store calls answer and the code is still live and equal, succeeds
\* without a duplicate conflict, and the table then holds one row for the
\* username and mobile, with the password hashed.
C17_RetryAfterStoreError ==
    \A p \in Procs :
        (RetryOfFailed(p) /\ result[p] \notin {StoreError, CodeMissing, CodeWrong})
        => /\ result[p].errors \cap ConflictErrors = {}
           /\ result[p] = Ok
           /\ \E a \in accounts :
                 /\ {b \in accounts : b.username = data[p].username
                                        \/ b.mobile = data[p].mobile} = {a}
                 /\ a.password = "pbkdf2_sha256$" \o data[p].password

\* the step in which worker p's call runs validate() and reads the code
ReadsCode(p) ==
    /\ pc[p] = "validate" /\ pc'[p] # "validate"
    /\ data[p].password = data[p].password2
    /\ result'[p] # StoreError

\* C18: no step of a register call changes the stored verification codes, so
\* a call that fails leaves them as they were; and a call that presents the
\* code stored for its mobile passes the code check, whatever was answered
\* before it.
C18_FailureKeepsCode ==
    [][\A p \in Procs :
          /\ pc'[p] # pc[p] => vcodes' = vcodes
          /\ (ReadsCode(p)
                /\ \E b \in vcodes[data[p].mobile] : CodeText(b) = data[p].sms_code)
             => pc'[p] = "insert"]_vars

\* a call refused for a wrong code, and the next call, for the same mobile
\* with the stored code, past the code check
C18_Witness ==
    \E p \in Procs :
        /\ prev.result = CodeWrong
        /\ prev.data.mobile = data[p].mobile
        /\ pc[p] = "insert"
        /\ CodeMatched(p)

----------------------------------------------------------------------------
(* Properties of email binding *)

\* the step of update() that queues the verification mail
Enqueues(p) == epc[p] = "send" /\ epc'[p] = "done" /\ eres'[p] = Ok

\* C15: whenever a bindEmail call enqueues the send, the persisted account
\* has the new email and its email-verified flag is false, also when the
\* previous email had been verified
C15_UnverifiedBeforeSend ==
    [][\A p \in Procs :
          Enqueues(p)
          => \E e \in ereq[p] :
                /\ profile.email = e
                /\ profile.email_active = FALSE]_vars

\* the call came back after its save of the row succeeded
SavedAndDone(p) ==
    /\ epc[p] = "done"
    /\ eres[p].status # "invalid"
    /\ eres[p] # StoreError

\* C16: a failure of the mailer (at the enqueue, or of the queued send
\* later) is not surfaced to the caller and does not undo the saved email:
\* the call returns the updated account and the stored email is the new one
C16_MailerFailureSwallowed ==
    \A p \in Procs :
        SavedAndDone(p)
        => /\ eres[p] = Ok
           /\ \E e \in ereq[p] : profile.email = e /\ einst[p].email = e

====
